---- MODULE Spec2Model ----
(***************************************************************************)
(* A model of the shipping oracle backend (backend/src): the datum decoder *)
(* TrackingDatum::from_cbor, the witness signer CardanoClient::sign_cbor,  *)
(* the chain reader fetch_shipments / map_tx_to_tracking_utxo, the closing *)
(* operation submit_shipment and the poll cycle DataFetcher::run.          *)
(*                                                                         *)
(* Bytes are sequences of integers 0..255, text is a sequence of one-      *)
(* character strings, and a Rust String is kept as its UTF-8 bytes.  The   *)
(* library calls the code makes (hex, minicbor, pallas, ed25519) are       *)
(* modelled by what they compute on the subset of encodings named below.   *)
(***************************************************************************)
EXTENDS Integers, Sequences, FiniteSets, TLC

(***************************************************************************)
(* Rust's Option, Result and a panic (an unwinding `unwrap`/`expect`).     *)
(***************************************************************************)
None == [tag |-> "None"]

Some(v) == [tag |-> "Some", val |-> v]

Ok(v) == [tag |-> "Ok", val |-> v]

Err(m) == [tag |-> "Err", msg |-> m]

Panic(m) == [tag |-> "Panic", msg |-> m]

is_some(o) == o.tag = "Some"

is_ok(r) == r.tag = "Ok"

\* Result<Vec<u8>, _>::unwrap_or_default()
unwrap_or_default(r) == IF is_ok(r) THEN r.val ELSE <<>>

(***************************************************************************)
(* The hex crate: hex::decode and hex::encode.                             *)
(***************************************************************************)
LowerHex == <<"0", "1", "2", "3", "4", "5", "6", "7",
              "8", "9", "a", "b", "c", "d", "e", "f">>

UpperHex == <<"0", "1", "2", "3", "4", "5", "6", "7",
              "8", "9", "A", "B", "C", "D", "E", "F">>

\* The value of one hex digit, -1 for a character that is none.
HexDigitValue(c) ==
    IF \E i \in 1..16 : LowerHex[i] = c
    THEN (CHOOSE i \in 1..16 : LowerHex[i] = c) - 1
    ELSE IF \E i \in 1..16 : UpperHex[i] = c
         THEN (CHOOSE i \in 1..16 : UpperHex[i] = c) - 1
         ELSE -1

hex_decode(s) ==
    IF Len(s) % 2 # 0 THEN Err("OddLength")
    ELSE IF \E i \in 1..Len(s) : HexDigitValue(s[i]) = -1
         THEN Err("InvalidHexCharacter")
         ELSE Ok([i \in 1..(Len(s) \div 2) |->
                    16 * HexDigitValue(s[2 * i - 1]) + HexDigitValue(s[2 * i])])

hex_encode(bs) ==
    [i \in 1..(2 * Len(bs)) |->
        IF i % 2 = 1 THEN LowerHex[(bs[(i + 1) \div 2] \div 16) + 1]
                     ELSE LowerHex[(bs[i \div 2] % 16) + 1]]

(***************************************************************************)
(* CBOR (RFC 8949), the subset the model's inputs use: small unsigned      *)
(* integers (0x00..0x17), definite byte strings with an immediate or a     *)
(* one-byte length (0x40..0x57, 0x58), definite arrays (0x80..0x97) and    *)
(* maps (0xa0..0xb7), one-byte tags (0xd8), false/true/null (0xf4..0xf6).  *)
(* An item is [kind, val, raw]; raw are the item's own bytes.              *)
(***************************************************************************)
CborFail == [ok |-> FALSE]

RECURSIVE CborItem(_, _)
RECURSIVE CborItems(_, _, _)

\* n consecutive items starting at position i
CborItems(bs, i, n) ==
    IF n = 0 THEN [ok |-> TRUE, items |-> <<>>, next |-> i]
    ELSE LET h == CborItem(bs, i) IN
         IF ~h.ok THEN CborFail
         ELSE LET t == CborItems(bs, h.next, n - 1) IN
              IF ~t.ok THEN CborFail
              ELSE [ok |-> TRUE, items |-> <<h.item>> \o t.items, next |-> t.next]

CborDone(bs, i, next, kind, val) ==
    [ok |-> TRUE, next |-> next,
     item |-> [kind |-> kind, val |-> val, raw |-> SubSeq(bs, i, next - 1)]]

CborItem(bs, i) ==
    IF i > Len(bs) THEN CborFail
    ELSE LET b == bs[i] IN
         CASE b \in 0..23 -> CborDone(bs, i, i + 1, "uint", b)
           [] b \in 64..87 ->
                IF i + (b - 64) > Len(bs) THEN CborFail
                ELSE CborDone(bs, i, i + 1 + (b - 64), "bytes",
                              SubSeq(bs, i + 1, i + (b - 64)))
           [] b = 88 ->
                IF i + 1 > Len(bs) \/ i + 1 + bs[i + 1] > Len(bs) THEN CborFail
                ELSE CborDone(bs, i, i + 2 + bs[i + 1], "bytes",
                              SubSeq(bs, i + 2, i + 1 + bs[i + 1]))
           [] b \in 128..151 ->
                LET r == CborItems(bs, i + 1, b - 128) IN
                IF ~r.ok THEN CborFail
                ELSE CborDone(bs, i, r.next, "array", r.items)
           [] b \in 160..183 ->
                LET r == CborItems(bs, i + 1, 2 * (b - 160)) IN
                IF ~r.ok THEN CborFail
                ELSE CborDone(bs, i, r.next, "map",
                              [k \in 1..(b - 160) |->
                                  <<r.items[2 * k - 1], r.items[2 * k]>>])
           [] b = 216 ->
                IF i + 1 > Len(bs) THEN CborFail
                ELSE LET r == CborItem(bs, i + 2) IN
                     IF ~r.ok THEN CborFail
                     ELSE CborDone(bs, i, r.next, "tag", <<bs[i + 1], r.item>>)
           [] b \in {244, 245} -> CborDone(bs, i, i + 1, "bool", b = 245)
           [] b = 246 -> CborDone(bs, i, i + 1, "null", 0)
           [] OTHER -> CborFail

\* The encoding of a byte string (major type 2).
CborBytes(bs) ==
    IF Len(bs) <= 23 THEN <<64 + Len(bs)>> \o bs ELSE <<88, Len(bs)>> \o bs

RECURSIVE Concat(_)
Concat(ss) == IF ss = <<>> THEN <<>> ELSE Head(ss) \o Concat(Tail(ss))

(***************************************************************************)
(* pallas PlutusData and its minicbor decoder: a tag 121..127 over an      *)
(* array is a constructor, a byte string is BoundedBytes, an integer is    *)
(* BigInt, arrays and maps are Array and Map; any other item is an error.  *)
(* The decoder reads one item and does not look at what follows it.        *)
(***************************************************************************)
RECURSIVE PlutusFromCbor(_)
PlutusFromCbor(it) ==
    LET all(items) == [k \in 1..Len(items) |-> PlutusFromCbor(items[k])]
        good(rs) == \A k \in 1..Len(rs) : is_ok(rs[k])
        vals(rs) == [k \in 1..Len(rs) |-> rs[k].val]
    IN
    CASE it.kind = "uint" -> Ok([kind |-> "BigInt", val |-> it.val])
      [] it.kind = "bytes" -> Ok([kind |-> "BoundedBytes", val |-> it.val])
      [] it.kind = "array" ->
           IF good(all(it.val))
           THEN Ok([kind |-> "Array", val |-> vals(all(it.val))])
           ELSE Err("bad cbor data type for plutus data")
      [] it.kind = "map" ->
           LET flat == [k \in 1..(2 * Len(it.val)) |->
                           it.val[(k + 1) \div 2][2 - (k % 2)]] IN
           IF good(all(flat))
           THEN Ok([kind |-> "Map", val |-> vals(all(flat))])
           ELSE Err("bad cbor data type for plutus data")
      [] it.kind = "tag" ->
           IF it.val[1] \in 121..127 /\ it.val[2].kind = "array"
              /\ good(all(it.val[2].val))
           THEN Ok([kind |-> "Constr", tag |-> it.val[1],
                    fields |-> vals(all(it.val[2].val))])
           ELSE Err("unknown tag for plutus data tag")
      [] OTHER -> Err("bad cbor data type for plutus data")

minicbor_decode_PlutusData(bytes) ==
    LET r == CborItem(bytes, 1) IN
    IF ~r.ok THEN Err("end of input") ELSE PlutusFromCbor(r.item)

RECURSIVE EncodePlutusData(_)
EncodePlutusData(d) ==
    CASE d.kind = "BigInt" -> <<d.val>>
      [] d.kind = "BoundedBytes" -> CborBytes(d.val)
      [] d.kind = "Array" ->
           <<128 + Len(d.val)>>
             \o Concat([k \in 1..Len(d.val) |-> EncodePlutusData(d.val[k])])
      [] d.kind = "Map" -> <<160 + (Len(d.val) \div 2)>>
             \o Concat([k \in 1..Len(d.val) |-> EncodePlutusData(d.val[k])])
      [] d.kind = "Constr" ->
           <<216, d.tag, 128 + Len(d.fields)>>
             \o Concat([k \in 1..Len(d.fields) |-> EncodePlutusData(d.fields[k])])

(***************************************************************************)
(* String::from_utf8: one-byte (00..7f), two-byte (c2..df 80..bf) and      *)
(* three-byte (e1..ec 80..bf 80..bf) sequences are accepted, every other   *)
(* byte is rejected (the model's byte strings use no other lead byte).     *)
(***************************************************************************)
RECURSIVE Utf8Valid(_, _)
Utf8Valid(bs, i) ==
    IF i > Len(bs) THEN TRUE
    ELSE LET cont(j) == j <= Len(bs) /\ bs[j] \in 128..191 IN
         CASE bs[i] \in 0..127 -> Utf8Valid(bs, i + 1)
           [] bs[i] \in 194..223 -> cont(i + 1) /\ Utf8Valid(bs, i + 2)
           [] bs[i] \in 225..236 ->
                cont(i + 1) /\ cont(i + 2) /\ Utf8Valid(bs, i + 3)
           [] OTHER -> FALSE

String_from_utf8(bs) == IF Utf8Valid(bs, 1) THEN Ok(bs) ELSE Err("FromUtf8Error")

(***************************************************************************)
(* pallas Address::from_bytes: the header's high nibble names the address  *)
(* type; a Shelley payload is one or two 28-byte hashes (a pointer address *)
(* carries a pointer after its hash).  Byron addresses (type 8), which are *)
(* CBOR themselves, are not among the model's inputs.  An address is kept  *)
(* as its bytes.                                                           *)
(***************************************************************************)
Address_from_bytes(bs) ==
    IF bs = <<>> THEN Err("MissingHeader")
    ELSE LET type == bs[1] \div 16
             plen == Len(bs) - 1
         IN
         CASE type \in 0..3 -> IF plen = 56 THEN Ok(bs) ELSE Err("InvalidHashSize")
           [] type \in {4, 5} -> IF plen > 28 THEN Ok(bs) ELSE Err("InvalidHashSize")
           [] type \in {6, 7, 14, 15} ->
                IF plen = 28 THEN Ok(bs) ELSE Err("InvalidHashSize")
           [] OTHER -> Err("InvalidHeader")

(***************************************************************************)
(* TrackingDatum::from_cbor (blockchain.rs).  The three Option locals are  *)
(* filled field by field; `unwrap` of an empty one would panic.            *)
(***************************************************************************)
\* constr.fields.get(k) matched against Some(PlutusData::BoundedBytes(_))
BoundedBytesField(constr, k) ==
    IF k + 1 <= Len(constr.fields) /\ constr.fields[k + 1].kind = "BoundedBytes"
    THEN Some(constr.fields[k + 1].val)
    ELSE None

\* `if datum.is_ok() { if let PlutusData::Constr(constr) = datum.unwrap() {..} }`
DecodedConstr(datum_bytes) ==
    LET datum == minicbor_decode_PlutusData(unwrap_or_default(hex_decode(datum_bytes)))
    IN IF is_ok(datum) /\ datum.val.kind = "Constr" THEN Some(datum.val) ELSE None

\* a carrier field that is absent when its bytes are no UTF-8
carrier_of_strict(constr) ==
    LET f == BoundedBytesField(constr, 0) IN
    IF is_some(f) /\ is_ok(String_from_utf8(f.val)) THEN Some(f.val) ELSE None

carrier_of(constr) ==
    LET f == BoundedBytesField(constr, 0) IN
    IF is_some(f) THEN Some(unwrap_or_default(String_from_utf8(f.val))) ELSE None

tracking_number_of(constr) ==
    LET f == BoundedBytesField(constr, 1) IN
    IF is_some(f) THEN Some(unwrap_or_default(String_from_utf8(f.val))) ELSE None

\* a variant that keeps the bytes without validating them as an address
outbox_address_unvalidated(constr) ==
    LET f == BoundedBytesField(constr, 2) IN
    IF is_some(f) THEN Some(f.val) ELSE None

outbox_address_of(constr) ==
    LET f == BoundedBytesField(constr, 2) IN
    IF is_some(f) /\ is_ok(Address_from_bytes(f.val))
    THEN Some(Address_from_bytes(f.val).val)
    ELSE None

\* a guard that looks at the tracking number only
from_cbor_incomplete_partial(carrier, tracking_number, outbox_address) ==
    ~is_some(tracking_number)

\* The guard of the early `return None`.
from_cbor_incomplete(carrier, tracking_number, outbox_address) ==
    ~is_some(tracking_number) \/ ~is_some(carrier) \/ ~is_some(outbox_address)

from_cbor(datum_bytes) ==
    LET c == DecodedConstr(datum_bytes)
        carrier == IF is_some(c) THEN carrier_of(c.val) ELSE None
        tracking_number == IF is_some(c) THEN tracking_number_of(c.val) ELSE None
        outbox_address == IF is_some(c) THEN outbox_address_of(c.val) ELSE None
    IN
    IF from_cbor_incomplete(carrier, tracking_number, outbox_address) THEN None
    ELSE IF ~is_some(carrier) \/ ~is_some(tracking_number) \/ ~is_some(outbox_address)
         THEN Panic("unwrap on None")
         ELSE Some([carrier |-> carrier.val,
                    tracking_number |-> tracking_number.val,
                    outbox_address |-> outbox_address.val])

(***************************************************************************)
(* ed25519_dalek.  Signing is deterministic; a verifying key is kept as a  *)
(* byte string that determines its signing key, and a signature as one     *)
(* that determines the key and the message.                                *)
(***************************************************************************)
verifying_key(sk) == [i \in 1..Len(sk) |-> (sk[i] + 1) % 256]

ed25519_sign(sk, msg) == verifying_key(sk) \o msg

(***************************************************************************)
(* pallas MultiEraTx::decode.  A Shelley-family transaction is the array   *)
(* [body, witness_set, success, auxiliary_data]; the Conway decoder is     *)
(* tried first and rejects an empty set (certificates, body key 4; vkey    *)
(* witnesses, witness key 0), which the Babbage decoder accepts; a Byron   *)
(* transaction is [[inputs, outputs, attributes], witnesses].  The body    *)
(* and the auxiliary data are kept as their raw bytes (KeepRaw); of the    *)
(* witness set the vkey witnesses are decoded and the other entries kept.  *)
(***************************************************************************)
UintKeys(m) == \A k \in 1..Len(m.val) : m.val[k][1].kind = "uint"

HasEmptyArrayAt(m, key) ==
    \E k \in 1..Len(m.val) :
        /\ m.val[k][1].val = key
        /\ m.val[k][2].kind = "array"
        /\ m.val[k][2].val = <<>>

IsVKeyWitness(it) ==
    /\ it.kind = "array"
    /\ Len(it.val) = 2
    /\ it.val[1].kind = "bytes"
    /\ it.val[2].kind = "bytes"

VKeyWitnessesOk(ws) ==
    \A k \in 1..Len(ws.val) :
        ws.val[k][1].val = 0 =>
            /\ ws.val[k][2].kind = "array"
            /\ \A j \in 1..Len(ws.val[k][2].val) : IsVKeyWitness(ws.val[k][2].val[j])

IsShelleyTx(it) ==
    /\ it.kind = "array"
    /\ Len(it.val) = 4
    /\ it.val[1].kind = "map" /\ UintKeys(it.val[1])
    /\ it.val[2].kind = "map" /\ UintKeys(it.val[2])
    /\ VKeyWitnessesOk(it.val[2])
    /\ it.val[3].kind = "bool"
    /\ it.val[4].kind \in {"null", "map"}

IsConwayTx(it) ==
    /\ IsShelleyTx(it)
    /\ ~HasEmptyArrayAt(it.val[1], 4)
    /\ ~HasEmptyArrayAt(it.val[2], 0)

IsByronTx(it) ==
    /\ it.kind = "array"
    /\ Len(it.val) = 2
    /\ it.val[1].kind = "array"
    /\ Len(it.val[1].val) = 3

\* the entries of a witness-set map other than the vkey witnesses: <<key, raw>>
RECURSIVE OtherEntries(_)
OtherEntries(pairs) ==
    IF pairs = <<>> THEN <<>>
    ELSE (IF Head(pairs)[1].val = 0 THEN <<>>
          ELSE << <<Head(pairs)[1].val, Head(pairs)[2].raw>> >>)
         \o OtherEntries(Tail(pairs))

DecodedWitnessSet(ws) ==
    [vkeywitness |->
        IF \E k \in 1..Len(ws.val) : ws.val[k][1].val = 0
        THEN LET a == ws.val[CHOOSE k \in 1..Len(ws.val) : ws.val[k][1].val = 0][2].val
             IN Some([j \in 1..Len(a) |->
                        [vkey |-> a[j].val[1].val, signature |-> a[j].val[2].val]])
        ELSE None,
     others |-> OtherEntries(ws.val)]

DecodedTx(era, it) ==
    [era |-> era,
     transaction_body |-> it.val[1].raw,
     transaction_witness_set |-> DecodedWitnessSet(it.val[2]),
     success |-> it.val[3].val,
     auxiliary_data |-> it.val[4].raw]

MultiEraTx_decode(bytes) ==
    LET r == CborItem(bytes, 1) IN
    IF ~r.ok THEN Err("unknown cbor")
    ELSE IF IsConwayTx(r.item) THEN Ok(DecodedTx("Conway", r.item))
    ELSE IF IsShelleyTx(r.item) THEN Ok(DecodedTx("Babbage", r.item))
    ELSE IF IsByronTx(r.item) THEN Ok([era |-> "Byron"])
    ELSE Err("unknown cbor")

\* minicbor::to_vec(&tx): the body and the auxiliary data are written from
\* their raw bytes, the witness set is encoded anew.
EncodeWitnessSet(ws) ==
    LET vk == IF is_some(ws.vkeywitness)
              THEN <<0, 128 + Len(ws.vkeywitness.val)>>
                     \o Concat([j \in 1..Len(ws.vkeywitness.val) |->
                                  <<130>> \o CborBytes(ws.vkeywitness.val[j].vkey)
                                          \o CborBytes(ws.vkeywitness.val[j].signature)])
              ELSE <<>>
        n == Len(ws.others) + (IF is_some(ws.vkeywitness) THEN 1 ELSE 0)
    IN <<160 + n>> \o vk
         \o Concat([k \in 1..Len(ws.others) |-> <<ws.others[k][1]>> \o ws.others[k][2]])

minicbor_to_vec(tx) ==
    <<132>> \o tx.transaction_body
            \o EncodeWitnessSet(tx.transaction_witness_set)
            \o <<IF tx.success THEN 245 ELSE 244>>
            \o tx.auxiliary_data

(***************************************************************************)
(* CardanoClient::sign_cbor (blockchain.rs).                               *)
(***************************************************************************)
\* SigningKey::from_bytes takes a [u8; 32]
SECRET_KEY_LENGTH == 32

\* NonEmptySet::from_vec
NonEmptySet_from_vec(v) == IF v = <<>> THEN None ELSE Some(v)

\* a variant that adds the witness to the ones the transaction carries
with_witness_appended(tx, witness) ==
    [tx EXCEPT !.transaction_witness_set.vkeywitness =
        IF is_some(tx.transaction_witness_set.vkeywitness)
        THEN Some(Append(tx.transaction_witness_set.vkeywitness.val, witness))
        ELSE Some(<<witness>>)]

\* a variant that rebuilds the transaction from its body and the witness
with_witness_rebuilt(tx, witness) ==
    [era |-> tx.era,
     transaction_body |-> tx.transaction_body,
     transaction_witness_set |->
        [tx.transaction_witness_set EXCEPT
            !.vkeywitness = NonEmptySet_from_vec(<<witness>>)],
     success |-> TRUE,
     auxiliary_data |-> <<246>>]

\* witness_set.vkeywitness = NonEmptySet::from_vec(vec![witness]);
\* tx.transaction_witness_set = KeepRaw::from(witness_set)
with_witness(tx, witness) ==
    [tx EXCEPT !.transaction_witness_set.vkeywitness =
        NonEmptySet_from_vec(<<witness>>)]

\* a variant that takes every Shelley-family transaction for a Conway one
as_conway_coerced(tx) == IF tx.era \in {"Conway", "Babbage"} THEN Some(tx) ELSE None

\* MultiEraTx::as_conway
as_conway(tx) == IF tx.era = "Conway" THEN Some(tx) ELSE None

sign_cbor(oracle_sk, envelope) ==
    LET tx_hash_bytes == hex_decode(envelope.hash)
        private_key_bytes == hex_decode(oracle_sk)
    IN
    IF ~is_ok(tx_hash_bytes) THEN Panic("tx_hash must be hex")
    ELSE IF ~is_ok(private_key_bytes) THEN Panic("private_key must be hex")
    ELSE IF Len(private_key_bytes.val) # SECRET_KEY_LENGTH
         THEN Panic("private_key must be 32 bytes")
    ELSE
    LET witness == [vkey |-> verifying_key(private_key_bytes.val),
                    signature |-> ed25519_sign(private_key_bytes.val,
                                               tx_hash_bytes.val)]
        bytes == hex_decode(envelope.tx)
    IN
    IF ~is_ok(bytes) THEN Err(bytes.msg)
    ELSE LET tx == MultiEraTx_decode(bytes.val) IN
         IF ~is_ok(tx) THEN Err(tx.msg)
         ELSE IF ~is_some(as_conway(tx.val)) THEN Err("Unsupported tx era")
         ELSE Ok(minicbor_to_vec(with_witness(as_conway(tx.val).val, witness)))

(***************************************************************************)
(* Config (config.rs, as CardanoClient reads it).  Opaque text is a TLA+   *)
(* string; the values are those of tests/integration.rs.                   *)
(***************************************************************************)
config ==
    [oracle_address |-> "addr_test1vqpp4rqsgkhyaz5ejjtwzane9wnkggfrn9pptgmtwq7fqws6t8yck",
     oracle_pkh |-> "021a8c1045ae4e8a999496e176792ba7642123994215a36b703c903a",
     oracle_payment_address |->
        "addr_test1vqpp4rqsgkhyaz5ejjtwzane9wnkggfrn9pptgmtwq7fqws6t8yck",
     validator_script_ref |->
        "a6a57fe7cfcd69537dc88bfe4321cd7f164f26afd21c91c78cced224e6496f41#1",
     validator_script_hash |-> "validator_script_hash"]

(***************************************************************************)
(* CardanoClient::map_tx_to_tracking_utxo (blockchain.rs).  `response` is  *)
(* what GET /txs/{hash}/utxos came to: [kind, tx], kind one of "ok",       *)
(* "network_error" (send failed), "bad_status" (not 2xx), "bad_body" (the  *)
(* body is no BlockfrostTx).                                               *)
(***************************************************************************)
\* tx.inputs.iter().any(..)
HasOracleScriptInput(tx) ==
    \E i \in 1..Len(tx.inputs) :
        /\ tx.inputs[i].address = config.oracle_address
        /\ tx.inputs[i].reference_script_hash = Some(config.validator_script_hash)

\* tx.outputs.iter().find(..): the first output at the oracle address that
\* carries an inline datum
FindTrackingOutput(tx) ==
    LET hits == { i \in 1..Len(tx.outputs) :
                    /\ tx.outputs[i].address = config.oracle_address
                    /\ is_some(tx.outputs[i].inline_datum) }
    IN IF hits = {} THEN None
       ELSE Some(tx.outputs[CHOOSE i \in hits : \A j \in hits : i <= j])

\* a lookup that names the record after the first output of the transaction
map_tx_to_first_output(tx_hash, response) ==
    IF response.kind # "ok" \/ ~HasOracleScriptInput(response.tx) THEN None
    ELSE LET utxo == FindTrackingOutput(response.tx) IN
         IF ~is_some(utxo) THEN None
         ELSE LET datum == from_cbor(utxo.val.inline_datum.val) IN
              IF ~is_some(datum) THEN None
              ELSE Some([tx_hash |-> tx_hash,
                         tx_index |-> response.tx.outputs[1].output_index,
                         datum |-> datum.val])

map_tx_to_tracking_utxo(tx_hash, response) ==
    IF response.kind = "network_error" \/ response.kind = "bad_status" THEN None
    ELSE IF response.kind = "bad_body" THEN None
    ELSE IF ~HasOracleScriptInput(response.tx) THEN None
    ELSE LET utxo == FindTrackingOutput(response.tx) IN
         IF ~is_some(utxo) THEN None
         ELSE LET datum == from_cbor(utxo.val.inline_datum.val) IN
              IF ~is_some(datum) THEN None
              ELSE Some([tx_hash |-> tx_hash,
                         tx_index |-> utxo.val.output_index,
                         datum |-> datum.val])

\* a collection that puts the results in reverse order
RECURSIVE filter_map_reversed(_)
filter_map_reversed(rs) ==
    IF rs = <<>> THEN <<>>
    ELSE filter_map_reversed(Tail(rs))
           \o (IF is_some(Head(rs)) THEN <<Head(rs).val>> ELSE <<>>)

\* shipments.await.into_iter().filter_map(|s| s).collect()
RECURSIVE filter_map(_)
filter_map(rs) ==
    IF rs = <<>> THEN <<>>
    ELSE (IF is_some(Head(rs)) THEN <<Head(rs).val>> ELSE <<>>) \o filter_map(Tail(rs))

(***************************************************************************)
(* get_status (shipment.rs)                                                *)
(***************************************************************************)
\* a mapping that takes every status but DELIVERED for a failed delivery
get_status_closing_all(tracking_status) ==
    CASE tracking_status.status = "DELIVERED" -> Some("DELIVERED")
      [] OTHER -> Some("NOT_DELIVERED")

get_status(tracking_status) ==
    CASE tracking_status.status = "DELIVERED" -> Some("DELIVERED")
      [] tracking_status.status = "RETURNED" -> Some("NOT_DELIVERED")
      [] tracking_status.status = "FAILURE" -> Some("NOT_DELIVERED")
      [] OTHER -> None

(***************************************************************************)
(* The parameters submit_shipment sends to the transaction builder.        *)
(***************************************************************************)
\* str::as_bytes of the two status texts
as_bytes(status) ==
    CASE status = "DELIVERED" -> <<68, 69, 76, 73, 86, 69, 82, 69, 68>>
      [] status = "NOT_DELIVERED" ->
           <<78, 79, 84, 95, 68, 69, 76, 73, 86, 69, 82, 69, 68>>

\* Address::to_string, the bech32 text of an address, kept as "addr:" and its hex
Address_to_string(addr) == <<"a", "d", "d", "r", ":">> \o hex_encode(addr)

\* a parameter set whose output reference always names output 0
CloseShipmentParams_first_output(tracking, status, now) ==
    [oracle |-> config.oracle_address,
     oracle_pkh |-> config.oracle_pkh,
     outbox |-> Address_to_string(tracking.datum.outbox_address),
     p_status |-> hex_encode(as_bytes(status)),
     p_timestamp |-> ToString(now),
     p_utxo_ref |-> tracking.tx_hash \o "#" \o "0",
     payment |-> config.oracle_payment_address,
     validator_script_ref |-> config.validator_script_ref]

CloseShipmentParams(tracking, status, now) ==
    [oracle |-> config.oracle_address,
     oracle_pkh |-> config.oracle_pkh,
     outbox |-> Address_to_string(tracking.datum.outbox_address),
     p_status |-> hex_encode(as_bytes(status)),
     p_timestamp |-> ToString(now),
     p_utxo_ref |-> tracking.tx_hash \o "#" \o ToString(tracking.tx_index),
     payment |-> config.oracle_payment_address,
     validator_script_ref |-> config.validator_script_ref]

\* TxSubmitter::submit as the recording double of tests/integration.rs takes
\* a call: the bytes are pushed onto the list of calls
TxSubmitter_submit(calls, signed_tx) == Append(calls, signed_tx)

(***************************************************************************)
(* CardanoClient::submit_transaction (blockchain.rs), the same code as     *)
(* BlockfrostSubmitter::submit (submitter.rs), on the answer to its one    *)
(* POST /tx/submit.  `response` is [kind |-> "network_error"] (send        *)
(* failed) or [kind |-> "http", status, body]: status is the status code,  *)
(* body is Ok(text) or, when reading the body fails, Err.  Text is a       *)
(* sequence of characters.  An anyhow error is its format string and the   *)
(* arguments formatted into it.                                            *)
(***************************************************************************)
\* StatusCode::is_success
is_success(status) == 200 <= status /\ status < 300

Digits == {"0", "1", "2", "3", "4", "5", "6", "7", "8", "9"}

\* serde_json on a body, for the bodies that occur: a string without escapes
\* and a number are parsed, an object in braces is taken as well-formed,
\* everything else (empty text included) is a parse error
serde_json_from_text(text) ==
    IF /\ Len(text) >= 2
       /\ text[1] = "\"" /\ text[Len(text)] = "\""
       /\ \A i \in 2..(Len(text) - 1) : text[i] \notin {"\"", "\\"}
    THEN Ok([kind |-> "string", val |-> SubSeq(text, 2, Len(text) - 1)])
    ELSE IF Len(text) >= 2 /\ text[1] = "{" /\ text[Len(text)] = "}"
    THEN Ok([kind |-> "object"])
    ELSE IF text # <<>> /\ \A i \in 1..Len(text) : text[i] \in Digits
    THEN Ok([kind |-> "number"])
    ELSE Err("expected value")

\* response.json().await: the body is read, then parsed
response_json(body) ==
    IF is_ok(body) THEN serde_json_from_text(body.val) ELSE Err("error decoding body")

\* a submission that takes any answer with a readable body for a success
submit_transaction_lenient(response) ==
    IF response.kind = "network_error"
    THEN Err([fmt |-> "Failed to submit transaction to Blockfrost", args |-> <<>>])
    ELSE Ok(unwrap_or_default(response.body))

submit_transaction(response) ==
    IF response.kind = "network_error"
    THEN Err([fmt |-> "Failed to submit transaction to Blockfrost", args |-> <<>>])
    ELSE IF ~is_success(response.status)
    THEN Err([fmt |-> "Blockfrost transaction submission failed (status {}): {}",
              args |-> <<response.status, unwrap_or_default(response.body)>>])
    ELSE LET response_json_ == response_json(response.body) IN
         IF ~is_ok(response_json_)
         THEN Err([fmt |-> "Failed to parse Blockfrost submission response",
                   args |-> <<>>])
         ELSE IF response_json_.val.kind # "string"
         THEN Err([fmt |-> "Expected tx hash string in response", args |-> <<>>])
         ELSE Ok(response_json_.val.val)

(***************************************************************************)
(* State.  d_* : one call of from_cbor on one input string.                *)
(*         s_* : one call of sign_cbor with one configured key on one      *)
(*               envelope.                                                 *)
(*         p_* : calls of submit_shipment, up to its request to the        *)
(*               builder, with one record and status.                      *)
(*         b_* : one call of submit_transaction with one signed            *)
(*               transaction.                                              *)
(*         The rest: the oracle process, its poll cycles and the chain.    *)
(***************************************************************************)
VARIABLES d_in, d_out, s_sk, s_env, s_out,
          p_in,         \* the arguments [tracking, status] of submit_shipment
          p_out,        \* the parameter sets its calls sent to the builder
          b_tx,         \* the signed bytes given to submit_transaction
          b_sent,       \* the requests POST /tx/submit sent for them
          b_resp,       \* the answer of the broadcast target
          b_out,        \* what submit_transaction returned
          oracle_sk,    \* Config.oracle_sk, read-only
          history,      \* the chain: transactions at the oracle address, in order
          spent,        \* the chain: the outputs <<tx_hash, index>> consumed
          pc,           \* where the process stands
          cycle,        \* poll cycles started so far
          last_run,     \* how the last poll cycle ended
          lookups,      \* fetch_shipments: one entry per listed transaction
          fetched,      \* what fetch_shipments returned in this cycle
          idx,          \* DataFetcher::run: the shipment the loop is at
          tracking_status, \* DataFetcher::run: the carrier's answer for it
          params,       \* the builder request of the closing under way
          envelope,     \* the builder's answer to it
          steps,        \* the steps of the closing under way, with results
          port_calls,   \* the submissions of the closing under way
          reports,      \* this cycle's per-shipment outcomes, as logged
          main_pc,      \* create_and_run_scheduler: where the main task stands
          ticks,        \* the cron ticks the job scheduler has fired
          runs,         \* the executions of execute_fetch_job, as started
          log           \* the lines execute_fetch_job printed, [run, line]

decode_vars == <<d_in, d_out>>

sign_vars == <<s_sk, s_env, s_out>>

build_vars == <<p_in, p_out>>

submit_vars == <<b_tx, b_sent, b_resp, b_out>>

call_vars == <<d_in, d_out, s_sk, s_env, s_out, p_in, p_out, b_tx, b_sent, b_resp,
               b_out>>

chain_vars == <<history, spent>>

closing_vars == <<params, envelope, steps, port_calls>>

cycle_vars == <<oracle_sk, history, spent, pc, cycle, last_run, lookups, fetched,
                idx, tracking_status, params, envelope, steps, port_calls, reports>>

sched_vars == <<main_pc, ticks, runs, log>>

vars == <<d_in, d_out, s_sk, s_env, s_out, p_in, p_out, b_tx, b_sent, b_resp,
          b_out, oracle_sk, history, spent, pc, cycle, last_run, lookups, fetched,
          idx, tracking_status, params, envelope, steps, port_calls, reports,
          main_pc, ticks, runs, log>>

NotCalled == [tag |-> "NotCalled"]

(***************************************************************************)
(* Inputs of from_cbor: the hex text of encoded PlutusData values, and     *)
(* damaged copies of some of them (cut short, a non-hex character, bytes   *)
(* appended).                                                              *)
(***************************************************************************)
MaxFields == 3

BoundedBytes(bs) == [kind |-> "BoundedBytes", val |-> bs]

Constr(fields) == [kind |-> "Constr", tag |-> 121, fields |-> fields]

\* "s": text, too short for an address
TextBytes == <<115>>

\* 0xc0 is no UTF-8 lead byte and no address header
BadUtf8Bytes == <<192>>

\* an enterprise address on the test network (header 0x60, a 28-byte hash)
AddrBytes == <<96>> \o [i \in 1..28 |-> 1]

\* the same with a hash that is not UTF-8
AddrBinBytes == <<96>> \o [i \in 1..28 |-> 255]

\* a tuple, not a set: values of different kinds are never compared
FieldSamples ==
    << BoundedBytes(TextBytes), BoundedBytes(BadUtf8Bytes),
       BoundedBytes(AddrBytes), BoundedBytes(AddrBinBytes),
       [kind |-> "BigInt", val |-> 1],
       [kind |-> "Array", val |-> <<>>],
       [kind |-> "Map", val |-> <<>>],
       Constr(<<>>) >>

\* the field lists of up to MaxFields sampled fields, as index lists
FieldLists == UNION { [1..n -> DOMAIN FieldSamples] : n \in 0..MaxFields }

FieldsOf(ixs) == [k \in 1..Len(ixs) |-> FieldSamples[ixs[k]]]

GoodDatum == Constr(<<BoundedBytes(TextBytes), BoundedBytes(TextBytes),
                       BoundedBytes(AddrBytes)>>)

BinDatum == Constr(<<BoundedBytes(BadUtf8Bytes), BoundedBytes(TextBytes),
                      BoundedBytes(AddrBinBytes)>>)

DatumHex(d) == hex_encode(EncodePlutusData(d))

Damaged(h) ==
    { SubSeq(h, 1, k) : k \in 0..Len(h) }
      \cup { [h EXCEPT ![k] = "g"] : k \in 1..Len(h) }
      \cup { h \o <<"f", "f">>, h \o <<"0">> }

DatumInputs ==
    { DatumHex(FieldSamples[k]) : k \in DOMAIN FieldSamples }
      \cup { DatumHex(Constr(FieldsOf(ixs))) : ixs \in FieldLists }
      \cup Damaged(DatumHex(GoodDatum)) \cup Damaged(DatumHex(BinDatum))
      \cup { <<"8", "0">>, <<"f", "6">>, <<"d", "8", "7", "9">>, <<"z">> }

(***************************************************************************)
(* Inputs of sign_cbor: configured keys and envelopes {hash, tx}, sound    *)
(* and damaged.                                                            *)
(***************************************************************************)
MaxWitnesses == 2

\* a 32-byte key, as configured in ORACLE_SK
KeyBytes == [i \in 1..32 |-> 17]

KeyHex == hex_encode(KeyBytes)

KeyInputs ==
    { KeyHex,
      SubSeq(KeyHex, 1, 62),          \* 31 bytes
      KeyHex \o <<"0", "0">>,         \* 33 bytes
      SubSeq(KeyHex, 1, 63),          \* odd length
      [KeyHex EXCEPT ![5] = "x"] }    \* not hex

HashBytes == [i \in 1..32 |-> 171]

HashHex == hex_encode(HashBytes)

HashInputs ==
    { HashHex,
      hex_encode([i \in 1..32 |-> 18]),
      [i \in 1..64 |-> IF i % 2 = 0 THEN "B" ELSE "A"],   \* upper case
      SubSeq(HashHex, 1, 63),                              \* odd length
      [HashHex EXCEPT ![64] = "g"] }                       \* not hex

\* the witnesses a transaction handed in may already carry
PlaceholderWitness(j) ==
    [vkey |-> [i \in 1..32 |-> j], signature |-> [i \in 1..64 |-> j]]

\* bodies: {2: fee}; one with an empty certificate list (key 4)
BodySamples == << <<161, 2, 5>>, <<161, 2, 7>> >>

BabbageBody == <<162, 2, 5, 4, 128>>

\* other witness-set entries: none, or redeemers (key 5)
OtherSamples == << <<>>, << <<5, <<129, 1>> >> >> >>

\* auxiliary data: null, or a metadata map
AuxSamples == << <<246>>, <<161, 1, 2>> >>

TxBytes(body, nwit, others, success, aux) ==
    minicbor_to_vec(
        [era |-> "Conway",
         transaction_body |-> body,
         transaction_witness_set |->
            [vkeywitness |->
                NonEmptySet_from_vec([j \in 1..nwit |-> PlaceholderWitness(j)]),
             others |-> others],
         success |-> success,
         auxiliary_data |-> aux])

ConwayTxBytes ==
    { TxBytes(BodySamples[b], n, OtherSamples[o], ok, AuxSamples[a]) :
        b \in DOMAIN BodySamples, n \in 0..MaxWitnesses,
        o \in DOMAIN OtherSamples, ok \in BOOLEAN, a \in DOMAIN AuxSamples }

BabbageTxBytes == TxBytes(BabbageBody, 1, <<>>, TRUE, <<246>>)

ByronTxBytes == <<130, 131, 128, 128, 160, 128>>

PlainTxBytes == TxBytes(BodySamples[1], 0, <<>>, TRUE, <<246>>)

TxHexInputs ==
    { hex_encode(t) : t \in ConwayTxBytes }
      \cup { hex_encode(BabbageTxBytes), hex_encode(ByronTxBytes) }
      \cup { hex_encode(SubSeq(PlainTxBytes, 1, k)) : k \in 0..(Len(PlainTxBytes) - 1) }
      \cup { hex_encode(<<131>> \o Tail(PlainTxBytes)),
             SubSeq(hex_encode(PlainTxBytes), 1, 5),
             [hex_encode(PlainTxBytes) EXCEPT ![3] = "g"] }

EnvelopeInputs == [hash : HashInputs, tx : TxHexInputs]

(***************************************************************************)
(* The chain and the remote services.  TxUniverse are the transactions     *)
(* that may sit at the oracle address, as GET /txs/{hash}/utxos reports    *)
(* them (BlockfrostTx); the report does not say whether an output has been *)
(* consumed since.                                                         *)
(***************************************************************************)
MaxTxs == 2

MaxCycles == 2

ScriptInput ==
    [address |-> config.oracle_address,
     reference_script_hash |-> Some(config.validator_script_hash)]

PlainInput == [address |-> "addr_test1_payer", reference_script_hash |-> None]

Output(address, index, datum) ==
    [address |-> address, output_index |-> index, inline_datum |-> datum]

TxUniverse ==
    << \* a tracking record in output 0
       [tx_hash |-> "a7a264ac", inputs |-> <<PlainInput, ScriptInput>>,
        outputs |-> <<Output(config.oracle_address, 0, Some(DatumHex(GoodDatum)))>>],
       \* a tracking record in output 1, after a payment output
       [tx_hash |-> "8185f0c4", inputs |-> <<ScriptInput>>,
        outputs |-> <<Output("addr_test1_payer", 0, None),
                      Output(config.oracle_address, 1, Some(DatumHex(BinDatum)))>>],
       \* an output at the oracle address without inline datum
       [tx_hash |-> "59d03591", inputs |-> <<ScriptInput>>,
        outputs |-> <<Output(config.oracle_address, 0, None)>>],
       \* an undecodable datum in output 0, a tracking record in output 1
       [tx_hash |-> "584cbabb", inputs |-> <<ScriptInput>>,
        outputs |-> <<Output(config.oracle_address, 0, Some(<<"8", "0">>)),
                      Output(config.oracle_address, 1, Some(DatumHex(GoodDatum)))>>],
       \* a tracking record in a transaction without the script input
       [tx_hash |-> "bd97a506", inputs |-> <<PlainInput>>,
        outputs |-> <<Output(config.oracle_address, 0, Some(DatumHex(GoodDatum)))>>] >>

\* the transaction lists: up to MaxTxs different transactions
Histories ==
    { h \in UNION { [1..n -> DOMAIN TxUniverse] : n \in 0..MaxTxs } :
        \A i, j \in DOMAIN h : i < j => h[i] < h[j] }

HttpOutcomes == {"ok", "network_error", "bad_status", "bad_body"}

\* the carrier's answers: a failure, or a TrackingStatus
CarrierOutcomes ==
    { Err("Shipment API query failed") }
      \cup { Ok([status |-> st, status_details |-> "details"]) :
               st \in {"DELIVERED", "RETURNED", "FAILURE", "TRANSIT", "PRE_TRANSIT"} }

\* the builder's answers: a failure, or an envelope {hash, tx}
BuilderOutcomes ==
    { Err("TRP error"),
      Ok([hash |-> HashHex, tx |-> hex_encode(PlainTxBytes)]),
      Ok([hash |-> HashHex,
          tx |-> hex_encode(TxBytes(BodySamples[2], 1, OtherSamples[2], TRUE,
                                    AuxSamples[2]))]),
      Ok([hash |-> [HashHex EXCEPT ![64] = "g"], tx |-> hex_encode(PlainTxBytes)]),
      Ok([hash |-> HashHex, tx |-> hex_encode(ByronTxBytes)]),
      Ok([hash |-> HashHex, tx |-> [hex_encode(PlainTxBytes) EXCEPT ![3] = "g"]]) }

\* the wall clock read by chrono::Utc::now()
Clock == {1771090081, 1771090082}

\* the one reading the poll cycles are run with: the time read has no part in
\* what a cycle does next
PollClock == {1771090081}

ConfiguredKeys == { KeyHex, SubSeq(KeyHex, 1, 62) }

NoParams == [tag |-> "None"]

NoEnvelope == [tag |-> "None"]

DecodeIdle == d_in = <<>> /\ d_out = NotCalled

SignIdle == s_sk = <<>> /\ s_env = [hash |-> <<>>, tx |-> <<>>] /\ s_out = NotCalled

BuildIdle == p_in = NotCalled /\ p_out = <<>>

SubmitIdle ==
    b_tx = <<>> /\ b_sent = <<>> /\ b_resp = NotCalled /\ b_out = NotCalled

SchedIdle == main_pc = "off" /\ ticks = 0 /\ runs = <<>> /\ log = <<>>

CycleIdle ==
    /\ oracle_sk = KeyHex
    /\ history = <<>> /\ spent = {}
    /\ pc = "off" /\ cycle = 0 /\ last_run = "none"
    /\ lookups = <<>> /\ fetched = NotCalled /\ idx = 0
    /\ tracking_status = NotCalled
    /\ params = NoParams /\ envelope = NoEnvelope
    /\ steps = <<>> /\ port_calls = <<>> /\ reports = <<>>

InitDecode ==
    /\ d_in \in DatumInputs
    /\ d_out = NotCalled
    /\ SignIdle /\ BuildIdle /\ SubmitIdle /\ CycleIdle /\ SchedIdle

CallFromCbor ==
    /\ d_out = NotCalled
    /\ d_out' = from_cbor(d_in)
    /\ UNCHANGED <<d_in, sign_vars, build_vars, submit_vars, cycle_vars,
                   sched_vars>>

NextDecode == CallFromCbor

SpecDecode == InitDecode /\ [][NextDecode]_vars

InitSign ==
    /\ s_sk \in KeyInputs
    /\ s_env \in EnvelopeInputs
    /\ s_out = NotCalled
    /\ DecodeIdle /\ BuildIdle /\ SubmitIdle /\ CycleIdle /\ SchedIdle

CallSignCbor ==
    /\ s_out = NotCalled
    /\ s_out' = sign_cbor(s_sk, s_env)
    /\ UNCHANGED <<s_sk, s_env, decode_vars, build_vars, submit_vars,
                   cycle_vars,
                   sched_vars>>

NextSign == CallSignCbor

SpecSign == InitSign /\ [][NextSign]_vars

(***************************************************************************)
(* submit_shipment, up to its request to the builder: the same record and  *)
(* status are closed up to MaxCalls times, each call reading the clock.    *)
(***************************************************************************)
MaxIndex == 2

MaxCalls == 2

RecordInputs ==
    [tx_hash : {"a7a264ac", "8185f0c4", "584cbabb"},
     tx_index : 0..MaxIndex,
     datum : {from_cbor(DatumHex(GoodDatum)).val, from_cbor(DatumHex(BinDatum)).val}]

StatusInputs == {"DELIVERED", "NOT_DELIVERED"}

InitParams ==
    /\ p_in \in [tracking : RecordInputs, status : StatusInputs]
    /\ p_out = <<>>
    /\ DecodeIdle /\ SignIdle /\ SubmitIdle /\ CycleIdle /\ SchedIdle

\* submit_shipment(tracking, status) builds CloseShipmentParams and hands it
\* to close_shipment_tx; `now` is what chrono::Utc::now() reads
CallSubmitShipment(now) ==
    /\ p_in # NotCalled
    /\ Len(p_out) < MaxCalls
    /\ p_out' = Append(p_out, CloseShipmentParams(p_in.tracking, p_in.status, now))
    /\ UNCHANGED <<p_in, decode_vars, sign_vars, submit_vars, cycle_vars,
                   sched_vars>>

NextParams == \E now \in Clock : CallSubmitShipment(now)

SpecParams == InitParams /\ [][NextParams]_vars

(***************************************************************************)
(* One call of submit_transaction: the request is sent, the broadcast      *)
(* target answers, the call returns.                                       *)
(***************************************************************************)
SignedTxInputs == { <<>>, PlainTxBytes, BabbageTxBytes, ByronTxBytes }

StatusCodes == {200, 202, 400, 425, 500}

BodyTexts ==
    { <<>>,
      <<"\"", "8", "b", "2", "f", "\"">>,
      <<"{", "\"", "e", "\"", ":", "4", "0", "0", "}">>,
      <<"4", "2">>,
      <<"B", "a", "d", "T", "x">> }

Responses ==
    { [kind |-> "network_error"] }
      \cup { [kind |-> "http", status |-> st, body |-> Ok(text)] :
                st \in StatusCodes, text \in BodyTexts }
      \cup { [kind |-> "http", status |-> st, body |-> Err("body read failed")] :
                st \in StatusCodes }

InitSubmit ==
    /\ b_tx \in SignedTxInputs
    /\ b_sent = <<>> /\ b_resp = NotCalled /\ b_out = NotCalled
    /\ DecodeIdle /\ SignIdle /\ BuildIdle /\ CycleIdle /\ SchedIdle

\* .post(&url).header("Content-Type", "application/cbor").body(signed_tx).send()
SendSubmit ==
    /\ b_sent = <<>>
    /\ b_out = NotCalled
    /\ b_sent' = <<[content_type |-> "application/cbor", body |-> b_tx]>>
    /\ UNCHANGED <<b_tx, b_resp, b_out, decode_vars, sign_vars, build_vars,
                   cycle_vars,
                   sched_vars>>

\* the answer arrives and submit_transaction returns
BroadcastResponds(response) ==
    /\ b_sent # <<>>
    /\ b_out = NotCalled
    /\ b_resp' = response
    /\ b_out' = submit_transaction(response)
    /\ UNCHANGED <<b_tx, b_sent, decode_vars, sign_vars, build_vars,
                   cycle_vars,
                   sched_vars>>

NextSubmit ==
    \/ SendSubmit
    \/ \E response \in Responses : BroadcastResponds(response)

SpecSubmit == InitSubmit /\ [][NextSubmit]_vars

(***************************************************************************)
(* The oracle process: create_and_run_scheduler runs one poll cycle at     *)
(* startup and one per cron tick (execute_fetch_job -> DataFetcher::run).  *)
(* A cycle is a sequence of steps, one per await: the address listing, the *)
(* per-transaction lookups (concurrent, join_all), and for each shipment   *)
(* the carrier lookup, the builder call, the signing and the submission.   *)
(* A tick is taken when no cycle is running.                               *)
(***************************************************************************)
Init ==
    /\ oracle_sk \in ConfiguredKeys
    /\ history \in Histories
    /\ spent = {}
    /\ pc = "idle" /\ cycle = 0 /\ last_run = "none"
    /\ lookups = <<>> /\ fetched = NotCalled /\ idx = 0
    /\ tracking_status = NotCalled
    /\ params = NoParams /\ envelope = NoEnvelope
    /\ steps = <<>> /\ port_calls = <<>> /\ reports = <<>>
    /\ DecodeIdle /\ SignIdle /\ BuildIdle /\ SubmitIdle /\ SchedIdle

UtxoRef(tracking) == <<tracking.tx_hash, tracking.tx_index>>

Report(tracking, outcome) == [ref |-> UtxoRef(tracking), outcome |-> outcome]

Step(name, result) == [step |-> name, result |-> result]

\* execute_fetch_job: DataFetcher::run starts and fetch_shipments sends
\* GET /addresses/{oracle_address}/transactions
StartCycle ==
    /\ pc = "idle"
    /\ cycle < MaxCycles
    /\ cycle' = cycle + 1
    /\ pc' = "listing"
    /\ lookups' = <<>> /\ fetched' = NotCalled /\ idx' = 0
    /\ tracking_status' = NotCalled
    /\ params' = NoParams /\ envelope' = NoEnvelope
    /\ steps' = <<>> /\ port_calls' = <<>> /\ reports' = <<>>
    /\ UNCHANGED <<oracle_sk, chain_vars, last_run, call_vars,
                   sched_vars>>

\* fetch_shipments: the listing answers.  A failure is the Err of the call,
\* which run returns and execute_fetch_job logs; a list starts one lookup
\* per transaction.
ListingResponds(outcome) ==
    /\ pc = "listing"
    /\ IF outcome = "ok"
       THEN /\ lookups' = [k \in 1..Len(history) |->
                             [tx_hash |-> TxUniverse[history[k]].tx_hash,
                              state |-> "pending", outcome |-> "none",
                              done_at |-> 0, result |-> None]]
            /\ pc' = "lookups"
            /\ UNCHANGED <<fetched, last_run>>
       ELSE /\ fetched' = Err(outcome)
            /\ pc' = "idle"
            /\ last_run' = "error"
            /\ UNCHANGED lookups
    /\ UNCHANGED <<oracle_sk, chain_vars, cycle, idx, tracking_status,
                   closing_vars, reports, call_vars,
                   sched_vars>>

\* one of the concurrent map_tx_to_tracking_utxo futures gets its answer;
\* what is kept of the answer is whether the query succeeded, and done_at
\* counts the answers in the order they come
LookupResponds(k, outcome) ==
    /\ pc = "lookups"
    /\ k \in DOMAIN lookups
    /\ lookups[k].state = "pending"
    /\ lookups' =
         [lookups EXCEPT ![k] =
            [tx_hash |-> lookups[k].tx_hash, state |-> "done",
             outcome |-> IF outcome = "ok" THEN "ok" ELSE "failed",
             done_at |->
                1 + Cardinality({j \in DOMAIN lookups : lookups[j].state = "done"}),
             result |-> map_tx_to_tracking_utxo(
                            lookups[k].tx_hash,
                            [kind |-> outcome, tx |-> TxUniverse[history[k]]])]]
    /\ UNCHANGED <<oracle_sk, chain_vars, pc, cycle, last_run, fetched, idx,
                   tracking_status, closing_vars, reports, call_vars,
                   sched_vars>>

\* join_all is complete: fetch_shipments returns Ok(the records found); the
\* answers of its lookups are kept until the loop of run starts
FetchReturns ==
    /\ pc = "lookups"
    /\ \A k \in DOMAIN lookups : lookups[k].state = "done"
    /\ fetched' = Ok(filter_map([k \in DOMAIN lookups |-> lookups[k].result]))
    /\ pc' = "loop"
    /\ UNCHANGED <<oracle_sk, chain_vars, cycle, last_run, lookups, idx,
                   tracking_status, closing_vars, reports, call_vars,
                   sched_vars>>

\* DataFetcher::run: the for loop takes the next shipment and asks the
\* carrier for its status, or ends and run returns Ok(())
NextShipment ==
    /\ pc = "loop"
    /\ IF idx < Len(fetched.val)
       THEN /\ idx' = idx + 1
            /\ pc' = "carrier"
            /\ tracking_status' = NotCalled
            /\ params' = NoParams /\ envelope' = NoEnvelope
            /\ steps' = <<>> /\ port_calls' = <<>>
            /\ UNCHANGED last_run
       ELSE /\ pc' = "idle"
            /\ last_run' = "ok"
            /\ UNCHANGED <<idx, tracking_status, closing_vars>>
    /\ lookups' = <<>>
    /\ UNCHANGED <<oracle_sk, chain_vars, cycle, fetched, reports, call_vars,
                   sched_vars>>

\* the carrier answers: a failure is logged and the loop continues; a status
\* that get_status maps to nothing is skipped; otherwise submit_shipment
\* starts and sends its parameters to the builder
CarrierResponds(outcome, now) ==
    /\ pc = "carrier"
    /\ tracking_status' = outcome
    /\ LET shipment == fetched.val[idx] IN
       IF ~is_ok(outcome)
       THEN /\ reports' = Append(reports, Report(shipment, "carrier_error"))
            /\ pc' = "loop"
            /\ UNCHANGED closing_vars
       ELSE IF ~is_some(get_status(outcome.val))
       THEN /\ reports' = Append(reports, Report(shipment, "skipped"))
            /\ pc' = "loop"
            /\ UNCHANGED closing_vars
       ELSE /\ params' = CloseShipmentParams(shipment, get_status(outcome.val).val, now)
            /\ envelope' = NoEnvelope
            /\ steps' = <<Step("build", "pending")>>
            /\ port_calls' = <<>>
            /\ pc' = "building"
            /\ UNCHANGED reports
    /\ UNCHANGED <<oracle_sk, chain_vars, cycle, last_run, lookups, fetched,
                   idx, call_vars,
                   sched_vars>>

\* a builder step whose failure does not stop the closing
BuilderResponds_ungated(outcome) ==
    /\ pc = "building"
    /\ envelope' = IF is_ok(outcome) THEN outcome.val
                   ELSE [hash |-> HashHex, tx |-> hex_encode(PlainTxBytes)]
    /\ steps' = <<Step("build", IF is_ok(outcome) THEN "ok" ELSE "err")>>
    /\ pc' = "signing"
    /\ UNCHANGED <<oracle_sk, chain_vars, cycle, last_run, lookups, fetched,
                   idx, tracking_status, params, port_calls, reports,
                   call_vars,
                   sched_vars>>

\* submit_shipment: close_shipment_tx(..).await? -- the builder answers
BuilderResponds(outcome) ==
    /\ pc = "building"
    /\ IF is_ok(outcome)
       THEN /\ envelope' = outcome.val
            /\ steps' = <<Step("build", "ok")>>
            /\ pc' = "signing"
            /\ UNCHANGED reports
       ELSE /\ steps' = <<Step("build", "err")>>
            /\ reports' = Append(reports, Report(fetched.val[idx], "build_error"))
            /\ pc' = "loop"
            /\ UNCHANGED envelope
    /\ UNCHANGED <<oracle_sk, chain_vars, cycle, last_run, lookups, fetched,
                   idx, tracking_status, params, port_calls, call_vars,
                   sched_vars>>

\* submit_shipment: self.sign_cbor(&envelope)? and, with the signed bytes,
\* the call of the submission.  A panic of sign_cbor unwinds through
\* submit_shipment and run: in the startup cycle, which runs in main, it
\* ends the process; in a cron job it ends that job.
SignEnvelope ==
    /\ pc = "signing"
    /\ LET cbor == sign_cbor(oracle_sk, envelope) IN
       CASE cbor.tag = "Ok" ->
              /\ steps' = steps \o <<Step("sign", "ok"), Step("submit", "pending")>>
              /\ port_calls' = TxSubmitter_submit(port_calls, cbor.val)
              /\ pc' = "submitting"
              /\ UNCHANGED <<reports, last_run>>
         [] cbor.tag = "Err" ->
              /\ steps' = Append(steps, Step("sign", "err"))
              /\ reports' = Append(reports, Report(fetched.val[idx], "sign_error"))
              /\ pc' = "loop"
              /\ UNCHANGED <<port_calls, last_run>>
         [] cbor.tag = "Panic" ->
              /\ steps' = Append(steps, Step("sign", "panic"))
              /\ pc' = IF cycle = 1 THEN "crashed" ELSE "idle"
              /\ last_run' = "panicked"
              /\ UNCHANGED <<port_calls, reports>>
    /\ UNCHANGED <<oracle_sk, chain_vars, cycle, lookups, fetched, idx,
                   tracking_status, params, envelope, call_vars,
                   sched_vars>>

\* a submission that is sent again when it has failed
SubmitResponds_retrying(outcome) ==
    /\ pc = "submitting"
    /\ LET shipment == fetched.val[idx]
           result == IF outcome = "ok" THEN "ok" ELSE "err" IN
       /\ IF outcome \in {"ok", "bad_body"}
          THEN /\ UtxoRef(shipment) \notin spent
               /\ spent' = spent \cup {UtxoRef(shipment)}
          ELSE UNCHANGED spent
       /\ steps' = [steps EXCEPT ![Len(steps)] = Step("submit", result)]
       /\ reports' = Append(reports, Report(shipment,
                        IF outcome = "ok" THEN "submitted" ELSE "submit_error"))
       /\ port_calls' = IF outcome = "ok" THEN port_calls
                        ELSE TxSubmitter_submit(port_calls, port_calls[1])
    /\ pc' = "loop"
    /\ UNCHANGED <<oracle_sk, history, cycle, last_run, lookups, fetched, idx,
                   tracking_status, params, envelope, call_vars,
                   sched_vars>>

\* submit_transaction: the answer to POST /tx/submit.  A success status means
\* the chain has accepted the transaction, which consumes the tracking
\* output (the chain accepts no transaction that consumes an output twice);
\* the call is Ok only if the body of that answer parses as well.
SubmitResponds(outcome) ==
    /\ pc = "submitting"
    /\ LET shipment == fetched.val[idx]
           result == IF outcome = "ok" THEN "ok" ELSE "err" IN
       /\ IF outcome \in {"ok", "bad_body"}
          THEN /\ UtxoRef(shipment) \notin spent
               /\ spent' = spent \cup {UtxoRef(shipment)}
          ELSE UNCHANGED spent
       /\ steps' = [steps EXCEPT ![Len(steps)] = Step("submit", result)]
       /\ reports' = Append(reports, Report(shipment,
                        IF outcome = "ok" THEN "submitted" ELSE "submit_error"))
    /\ pc' = "loop"
    /\ UNCHANGED <<oracle_sk, history, cycle, last_run, lookups, fetched, idx,
                   tracking_status, params, envelope, port_calls, call_vars,
                   sched_vars>>

Next ==
    \/ StartCycle
    \/ \E outcome \in HttpOutcomes : ListingResponds(outcome)
    \/ \E k \in 1..MaxTxs, outcome \in HttpOutcomes : LookupResponds(k, outcome)
    \/ FetchReturns
    \/ NextShipment
    \/ \E outcome \in CarrierOutcomes, now \in PollClock : CarrierResponds(outcome, now)
    \/ \E outcome \in BuilderOutcomes : BuilderResponds(outcome)
    \/ SignEnvelope
    \/ \E outcome \in HttpOutcomes : SubmitResponds(outcome)

Spec == Init /\ [][Next]_vars

\* What the runtime and the clients guarantee to happen.  The cron ticks
\* come; a step that waits for nothing remote is taken (the runtime polls a
\* ready future); the carrier lookup ends, with an error at the latest when
\* the timeout of ShipmentClient's HTTP client expires.  CardanoClient's HTTP
\* client is built by HttpClient::new(), without timeout, and the builder
\* client likewise: nothing makes the address listing, a transaction lookup,
\* the builder or the broadcast answer.  Signing is a local step too:
\* SignEnvelope is enabled exactly when pc = "signing" and every step of it
\* leaves that place, so its weak fairness is that the process is again and
\* again somewhere else.
FairSpec ==
    /\ Spec
    /\ WF_vars(StartCycle)
    /\ WF_vars(FetchReturns)
    /\ WF_vars(NextShipment)
    /\ []<>(pc # "signing")
    /\ WF_vars(\E outcome \in CarrierOutcomes, now \in PollClock :
                  CarrierResponds(outcome, now))

(***************************************************************************)
(* The scheduler: create_and_run_scheduler sets the cron job up, starts the *)
(* job scheduler, awaits one execute_fetch_job itself and then sleeps in a  *)
(* loop; the job scheduler spawns one execute_fetch_job per cron tick, as a *)
(* task of its own.  What a poll cycle does is the matter of Spec; here a   *)
(* cycle is known by how DataFetcher::run ends: Ok, Err, or the panic of    *)
(* sign_cbor unwinding through it (last_run in Spec).  A cycle whose remote *)
(* call never answers never ends.                                          *)
(***************************************************************************)
MaxTicks == 2

\* JobScheduler::new, Job::new_async (which parses Config.cron_schedule, a
\* string from_env takes as it is), add and start, each followed by ?
SetUpOutcomes == {"ok", "bad_cron_schedule", "scheduler_error"}

\* how DataFetcher::run ends
RunOutcomes == {"ok", "error", "panicked"}

Run(origin, state) == [origin |-> origin, state |-> state]

Line(run, line) == [run |-> run, line |-> line]

\* the process lives and the job scheduler has been started
SchedulerStarted == main_pc \in {"started", "startup_run", "sleeping"}

InitScheduler ==
    /\ main_pc = "setup" /\ ticks = 0 /\ runs = <<>> /\ log = <<>>
    /\ DecodeIdle /\ SignIdle /\ BuildIdle /\ SubmitIdle /\ CycleIdle

\* create_and_run_scheduler up to scheduler.start(): an Err of one of the
\* four calls is returned, main returns it and the process ends
StartScheduler(outcome) ==
    /\ main_pc = "setup"
    /\ main_pc' = IF outcome = "ok" THEN "started" ELSE "failed"
    /\ UNCHANGED <<ticks, runs, log, call_vars, cycle_vars>>

\* the main task calls execute_fetch_job, which prints its first line and
\* awaits DataFetcher::run
StartupRun ==
    /\ main_pc = "started"
    /\ main_pc' = "startup_run"
    /\ runs' = Append(runs, Run("startup", "running"))
    /\ log' = Append(log, Line(Len(runs) + 1, "executing"))
    /\ UNCHANGED <<ticks, call_vars, cycle_vars>>

\* a cron tick: the job scheduler spawns the job's closure, which calls
\* execute_fetch_job, whatever the earlier executions are doing
Tick ==
    /\ SchedulerStarted
    /\ ticks < MaxTicks
    /\ ticks' = ticks + 1
    /\ runs' = Append(runs, Run("tick", "running"))
    /\ log' = Append(log, Line(Len(runs) + 1, "executing"))
    /\ UNCHANGED <<main_pc, call_vars, cycle_vars>>

\* DataFetcher::run of execution i ends.  Ok and Err are printed and
\* execute_fetch_job returns; in the main task the sleep loop follows.  A
\* panic prints neither: in a spawned job it ends that task only, in the main
\* task it unwinds through create_and_run_scheduler and main, and the
\* process ends with the executions still under way.
RunEnds(i, outcome) ==
    /\ SchedulerStarted
    /\ i \in DOMAIN runs
    /\ runs[i].state = "running"
    /\ IF outcome = "panicked" /\ runs[i].origin = "startup"
       THEN /\ main_pc' = "crashed"
            /\ runs' = [k \in DOMAIN runs |->
                          IF k = i THEN Run(runs[k].origin, "panicked")
                          ELSE IF runs[k].state = "running"
                               THEN Run(runs[k].origin, "aborted")
                               ELSE runs[k]]
       ELSE /\ main_pc' = IF runs[i].origin = "startup" THEN "sleeping"
                          ELSE main_pc
            /\ runs' = [runs EXCEPT ![i] = Run(runs[i].origin, outcome)]
    /\ log' = CASE outcome = "ok" -> Append(log, Line(i, "completed"))
                [] outcome = "error" -> Append(log, Line(i, "error"))
                [] outcome = "panicked" -> log
    /\ UNCHANGED <<ticks, call_vars, cycle_vars>>

NextScheduler ==
    \/ \E outcome \in SetUpOutcomes : StartScheduler(outcome)
    \/ StartupRun
    \/ Tick
    \/ \E i \in 1..(MaxTicks + 1), outcome \in RunOutcomes : RunEnds(i, outcome)

SpecScheduler == InitScheduler /\ [][NextScheduler]_vars

(***************************************************************************)
(* Claims about from_cbor (checked under SpecDecode).                      *)
(***************************************************************************)
\* The input is hex of a constructor whose fields 0, 1 and 2 are byte
\* strings, the third one a valid address.
WellShapedDatum(h) ==
    /\ is_ok(hex_decode(h))
    /\ LET d == minicbor_decode_PlutusData(hex_decode(h).val) IN
       /\ is_ok(d)
       /\ d.val.kind = "Constr"
       /\ Len(d.val.fields) >= 3
       /\ \A k \in 1..3 : d.val.fields[k].kind = "BoundedBytes"
       /\ is_ok(Address_from_bytes(d.val.fields[3].val))

\* C1: from_cbor returns a record if and only if the input decodes to a
\* constructor whose field 0 is a byte string, field 1 is a byte string and
\* field 2 is a byte string that parses as a valid address; for every other
\* input it returns None, and a returned record has all three fields.
C1_FromCborAllOrNothing ==
    d_out.tag # "NotCalled" =>
        /\ d_out.tag \in {"Some", "None"}
        /\ is_some(d_out) <=> WellShapedDatum(d_in)
        /\ is_some(d_out) =>
             /\ DOMAIN d_out.val = {"carrier", "tracking_number", "outbox_address"}
             /\ is_ok(Address_from_bytes(d_out.val.outbox_address))

\* from_cbor has returned a fully populated record for a well-shaped input
C1_Witness ==
    /\ is_some(d_out)
    /\ d_in = DatumHex(GoodDatum)
    /\ d_out.val.carrier = TextBytes
    /\ d_out.val.outbox_address = AddrBytes

(***************************************************************************)
(* Claims about sign_cbor (checked under SpecSign).                        *)
(***************************************************************************)
SignCalled == s_out.tag # "NotCalled"

\* the transaction handed in, as the decoder reads it (an Err if it is none)
InputTx ==
    IF is_ok(hex_decode(s_env.tx))
    THEN MultiEraTx_decode(hex_decode(s_env.tx).val)
    ELSE Err("not hex")

OutputTx == MultiEraTx_decode(s_out.val)

\* C2: after a successful sign the vkey witness set of the output
\* transaction holds exactly one witness, the public key derived from the
\* configured signing key and the signature over the decoded envelope hash,
\* whatever vkey witnesses the input transaction carried.
C2_SoleWitness ==
    is_ok(s_out) =>
        /\ is_ok(OutputTx)
        /\ OutputTx.val.transaction_witness_set.vkeywitness =
             Some(<< [vkey |-> verifying_key(hex_decode(s_sk).val),
                      signature |-> ed25519_sign(hex_decode(s_sk).val,
                                                 hex_decode(s_env.hash).val)] >>)
        /\ (s_sk = KeyHex /\ s_env.hash = HashHex) =>
              OutputTx.val.transaction_witness_set.vkeywitness.val[1] =
                 [vkey |-> verifying_key(KeyBytes),
                  signature |-> ed25519_sign(KeyBytes, HashBytes)]

\* a transaction that carried two witnesses has been signed
C2_Witness ==
    /\ is_ok(s_out)
    /\ is_ok(InputTx)
    /\ is_some(InputTx.val.transaction_witness_set.vkeywitness)
    /\ Len(InputTx.val.transaction_witness_set.vkeywitness.val) = 2
    /\ Len(OutputTx.val.transaction_witness_set.vkeywitness.val) = 1

\* C3: a successful sign changes nothing but the witness set: the body, the
\* validity flag, the auxiliary data (metadata) and the era of the output
\* transaction are those of the input transaction, byte for byte.
C3_OnlyWitnessSetChanges ==
    is_ok(s_out) =>
        /\ is_ok(InputTx) /\ is_ok(OutputTx)
        /\ OutputTx.val.era = InputTx.val.era
        /\ OutputTx.val.transaction_body = InputTx.val.transaction_body
        /\ OutputTx.val.success = InputTx.val.success
        /\ OutputTx.val.auxiliary_data = InputTx.val.auxiliary_data
        /\ OutputTx.val.transaction_witness_set.others =
             InputTx.val.transaction_witness_set.others

\* a transaction with metadata, redeemers and a false validity flag has been signed
C3_Witness ==
    /\ is_ok(s_out)
    /\ InputTx.val.auxiliary_data = AuxSamples[2]
    /\ InputTx.val.transaction_witness_set.others = OtherSamples[2]
    /\ InputTx.val.success = FALSE
    /\ OutputTx.val.transaction_witness_set # InputTx.val.transaction_witness_set

\* C6: signing a transaction that is not in the Conway era produces no
\* signed bytes, and with a well-formed hash and key it fails with the
\* error "Unsupported tx era"; nothing is coerced from another era.
C6_UnsupportedEra ==
    (SignCalled /\ is_ok(InputTx) /\ InputTx.val.era # "Conway") =>
        /\ ~is_ok(s_out)
        /\ (is_ok(hex_decode(s_env.hash)) /\ is_ok(hex_decode(s_sk))
              /\ Len(hex_decode(s_sk).val) = SECRET_KEY_LENGTH)
             => s_out = Err("Unsupported tx era")

\* sign_cbor has refused a Babbage transaction given with a sound hash and key
C6_Witness ==
    /\ s_out = Err("Unsupported tx era")
    /\ s_env.tx = hex_encode(BabbageTxBytes)
    /\ s_sk = KeyHex

\* one of the inputs of the signing attempt is malformed
MalformedSignInput ==
    \/ ~is_ok(hex_decode(s_env.hash))
    \/ ~is_ok(hex_decode(s_env.tx))
    \/ ~is_ok(hex_decode(s_sk))
    \/ Len(hex_decode(s_sk).val) # SECRET_KEY_LENGTH
    \/ ~is_ok(InputTx)

\* C7: malformed hex in the envelope hash, in the envelope body or in the
\* configured key, a key that is not 32 bytes, or a structurally invalid
\* transaction make the signing attempt fail with an error returned to the
\* caller (a Result::Err, not a panic that unwinds through the caller).
C7_MalformedInputIsError ==
    (SignCalled /\ MalformedSignInput) => s_out.tag = "Err"

(***************************************************************************)
(* Claims about one closing operation (submit_shipment) and the poll cycle *)
(***************************************************************************)
StepOrder == <<"build", "sign", "submit">>

\* C4: within one closing the steps run in the order build, sign, submit and
\* a step runs only if the step before it succeeded: after a builder failure
\* there is no signing and no submission, after a signing failure (an error
\* or a panic) there is no submission.
C4_StrictGatedOrder ==
    /\ Len(steps) <= 3
    /\ \A i \in DOMAIN steps : steps[i].step = StepOrder[i]
    /\ \A i \in DOMAIN steps : i > 1 => steps[i - 1].result = "ok"
    /\ pc = "signing" => steps = <<Step("build", "ok")>>
    /\ pc = "submitting" => Len(steps) = 3
    /\ port_calls # <<>> => Len(steps) = 3

C4_Witness ==
    /\ Len(steps) = 2
    /\ steps[2] = Step("sign", "err")
    /\ port_calls = <<>>
    /\ pc = "loop"

CycleEnded == pc \in {"idle", "crashed"} /\ cycle > 0

\* C8: in a poll cycle whose fetch returned records, a failure for one
\* shipment is reported for that shipment and every other fetched shipment
\* is still processed: at the end of the cycle there is one report per
\* fetched record, in order.
C8_EveryShipmentProcessed ==
    (CycleEnded /\ is_ok(fetched)) =>
        /\ Len(reports) = Len(fetched.val)
        /\ \A i \in DOMAIN reports : reports[i].ref = UtxoRef(fetched.val[i])

\* C9: every record fetch_shipments returns references an output that is
\* unspent when the query is made, so an output consumed by a successful
\* closing is not fetched, and not closed, again.
C9_FetchedAreUnspent ==
    is_ok(fetched) =>
        \A i \in DOMAIN fetched.val : i > idx => UtxoRef(fetched.val[i]) \notin spent

\* C10: fetch_shipments returns a list only if the address listing and every
\* per-transaction lookup succeeded; any network error, non-success status
\* or malformed body makes the call an error.
C10_NoPartialList ==
    [][(pc = "lookups" /\ pc' = "loop") =>
         \A k \in DOMAIN lookups : lookups[k].outcome = "ok"]_vars

(***************************************************************************)
(* Claims about fetch_shipments                                            *)
(***************************************************************************)
\* the outputs of a transaction that sit at the oracle address and carry an
\* inline datum which decodes
DecodableOutputs(tx) ==
    SelectSeq(tx.outputs,
              LAMBDA o : /\ o.address = config.oracle_address
                         /\ is_some(o.inline_datum)
                         /\ is_some(from_cbor(o.inline_datum.val)))

FetchReturning == pc = "lookups" /\ pc' = "loop"

AllLookupsOk == \A k \in DOMAIN lookups : lookups[k].outcome = "ok"

\* C11: when every query succeeded, fetch_shipments returns a record for
\* every output at the oracle address whose inline datum decodes, and only
\* for those: an output without datum, or with a datum that does not decode,
\* removes no decodable record from the result.
C11_EveryDecodableOutput ==
    [][(FetchReturning /\ AllLookupsOk) =>
         /\ \A k \in DOMAIN history :
              LET tx == TxUniverse[history[k]] IN
              \A j \in DOMAIN DecodableOutputs(tx) :
                 \E i \in DOMAIN fetched'.val :
                    /\ fetched'.val[i].tx_hash = tx.tx_hash
                    /\ fetched'.val[i].tx_index = DecodableOutputs(tx)[j].output_index
         /\ \A i \in DOMAIN fetched'.val :
              \E k \in DOMAIN history :
                 LET tx == TxUniverse[history[k]] IN
                 /\ fetched'.val[i].tx_hash = tx.tx_hash
                 /\ \E j \in DOMAIN DecodableOutputs(tx) :
                       fetched'.val[i].tx_index = DecodableOutputs(tx)[j].output_index
      ]_vars

(***************************************************************************)
(* Claims about the parameters sent to the transaction builder             *)
(***************************************************************************)
\* the lower-case hex of the ASCII bytes of the two status texts
StatusHex ==
    [st \in StatusInputs |->
       IF st = "DELIVERED"
       THEN <<"4", "4", "4", "5", "4", "c", "4", "9", "5", "6", "4", "5", "5", "2",
              "4", "5", "4", "4">>
       ELSE <<"4", "e", "4", "f", "5", "4", "5", "f", "4", "4", "4", "5", "4", "c",
              "4", "9", "5", "6", "4", "5", "5", "2", "4", "5", "4", "4">>]

IndexText == <<"0", "1", "2", "3", "4">>

\* C12: for every record and status the parameter set sent to the builder
\* has p_status = hex of the status text, p_utxo_ref = "<tx_hash>#<tx_index>"
\* of the record, outbox = the text of the datum's outbox address, and
\* oracle, oracle_pkh, payment and validator_script_ref as configured.
C12_ParamsOfRecordAndStatus ==
    \A i \in DOMAIN p_out :
        /\ DOMAIN p_out[i] = {"oracle", "oracle_pkh", "outbox", "p_status",
                              "p_timestamp", "p_utxo_ref", "payment",
                              "validator_script_ref"}
        /\ p_out[i].p_status = StatusHex[p_in.status]
        /\ p_out[i].p_utxo_ref =
             p_in.tracking.tx_hash \o "#" \o IndexText[p_in.tracking.tx_index + 1]
        /\ p_out[i].outbox = Address_to_string(p_in.tracking.datum.outbox_address)
        /\ p_out[i].oracle = config.oracle_address
        /\ p_out[i].oracle_pkh = config.oracle_pkh
        /\ p_out[i].payment = config.oracle_payment_address
        /\ p_out[i].validator_script_ref = config.validator_script_ref

\* a NOT_DELIVERED closing of an output that is not output 0 has been sent
C12_Witness ==
    /\ p_in # NotCalled
    /\ p_in.status = "NOT_DELIVERED"
    /\ p_in.tracking.tx_index = 1
    /\ p_out # <<>>

\* C13: the closing time is an argument of the closing and the clock is not
\* read, so calls with the same record, status and time send identical
\* parameter sets: the parameter set is determined by the arguments.
C13_SameArgumentsSameParams ==
    \A i, j \in DOMAIN p_out : p_out[i] = p_out[j]

(***************************************************************************)
(* Claims about submit_transaction / BlockfrostSubmitter::submit           *)
(***************************************************************************)
NonSuccessAnswer ==
    /\ b_out # NotCalled
    /\ b_resp.kind = "http"
    /\ b_resp.status \notin 200..299

\* C14: when the broadcast target answers with a non-success status, submit
\* returns an error that carries the status and the response body (empty when
\* the body could not be read) and no transaction id; a call sends exactly
\* one request, with the signed bytes, and never a second one.
C14_NonSuccessIsError ==
    /\ Len(b_sent) <= 1
    /\ b_out # NotCalled =>
         /\ Len(b_sent) = 1
         /\ b_sent[1].body = b_tx
    /\ NonSuccessAnswer =>
         /\ b_out.tag = "Err"
         /\ b_out.msg.args[1] = b_resp.status
         /\ b_out.msg.args[2] =
              (IF b_resp.body.tag = "Ok" THEN b_resp.body.val ELSE <<>>)

\* submit has returned the error for a 400 answer with a JSON body
C14_Witness ==
    /\ NonSuccessAnswer
    /\ b_resp.status = 400
    /\ b_resp.body = Ok(<<"{", "\"", "e", "\"", ":", "4", "0", "0", "}">>)
    /\ b_out.tag = "Err"
    /\ Len(b_sent) = 1

(***************************************************************************)
(* Claims about timeouts                                                   *)
(***************************************************************************)
\* where a poll cycle waits for the ledger query, the carrier or the broadcast
RemoteWaits == {"listing", "lookups", "carrier", "submitting"}

\* C15: a remote call that never responds fails after a bounded timeout, so
\* no poll cycle waits forever on the ledger query, the carrier lookup or
\* the broadcast: every such wait ends.
C15_NoCallWaitsForever ==
    \A w \in RemoteWaits : (pc = w) ~> (pc # w)

(***************************************************************************)
(* Claims about the carrier status                                         *)
(***************************************************************************)
TerminalStatuses == {"DELIVERED", "RETURNED", "FAILURE"}

CarrierStatuses == TerminalStatuses \cup {"TRANSIT", "PRE_TRANSIT", "UNKNOWN", ""}

ExpectedClosingStatus(st) ==
    IF st = "DELIVERED" THEN Some("DELIVERED")
    ELSE IF st \in {"RETURNED", "FAILURE"} THEN Some("NOT_DELIVERED")
    ELSE None

\* C16: get_status maps DELIVERED to DELIVERED, RETURNED and FAILURE to
\* NOT_DELIVERED and every other status to no action; a poll cycle starts a
\* closing for a shipment only when the carrier reported one of these three
\* statuses, with the mapped status, and never for a status such as TRANSIT.
C16_ClosingOnlyForTerminalStatus ==
    /\ \A st \in CarrierStatuses :
          get_status([status |-> st, status_details |-> "details"])
            = ExpectedClosingStatus(st)
    /\ (steps # <<>> \/ params # NoParams) =>
          /\ is_ok(tracking_status)
          /\ tracking_status.val.status \in TerminalStatuses
          /\ params.p_status =
               StatusHex[ExpectedClosingStatus(tracking_status.val.status).val]
    /\ (is_ok(tracking_status) /\ tracking_status.val.status \notin TerminalStatuses) =>
          /\ steps = <<>> /\ params = NoParams /\ port_calls = <<>>
          /\ pc \in {"loop", "idle"}
          /\ reports[Len(reports)] = Report(fetched.val[idx], "skipped")

\* a shipment in TRANSIT has been skipped
C16_Witness ==
    /\ is_ok(tracking_status)
    /\ tracking_status.val.status = "TRANSIT"
    /\ pc = "loop"
    /\ steps = <<>>
    /\ reports # <<>>
    /\ reports[Len(reports)].outcome = "skipped"

(***************************************************************************)
(* More claims about from_cbor (checked under SpecDecode)                  *)
(***************************************************************************)
FromCborCalled == d_out.tag # "NotCalled"

\* C17: for every input string, empty, non-hex, truncated or malformed,
\* from_cbor returns a value and does not panic; invalid hex is read as the
\* empty byte string, and every input that is not a well-shaped datum gives
\* None.
C17_FromCborNeverPanics ==
    FromCborCalled =>
        /\ d_out.tag # "Panic"
        /\ d_out.tag \in {"Some", "None"}
        /\ ~is_ok(hex_decode(d_in)) => (d_out = None /\ d_out = from_cbor(<<>>))
        /\ ~WellShapedDatum(d_in) => d_out = None

\* from_cbor has returned None for a truncated datum of odd length
C17_Witness ==
    /\ FromCborCalled
    /\ d_in = SubSeq(DatumHex(GoodDatum), 1, 7)
    /\ ~is_ok(hex_decode(d_in))
    /\ d_out = None

\* C18: when the carrier or the tracking number is a byte string that is not
\* valid UTF-8 and the datum is otherwise well-shaped, from_cbor returns a
\* record in which that field is the empty string.
C18_BadUtf8IsEmptyString ==
    (FromCborCalled /\ WellShapedDatum(d_in)) =>
        LET fields == minicbor_decode_PlutusData(hex_decode(d_in).val).val.fields IN
        /\ is_some(d_out)
        /\ ~Utf8Valid(fields[1].val, 1) => d_out.val.carrier = <<>>
        /\ ~Utf8Valid(fields[2].val, 1) => d_out.val.tracking_number = <<>>
        /\ Utf8Valid(fields[1].val, 1) => d_out.val.carrier = fields[1].val
        /\ Utf8Valid(fields[2].val, 1) => d_out.val.tracking_number = fields[2].val

\* from_cbor has returned a record with an empty carrier for the datum whose
\* carrier bytes are no UTF-8
C18_Witness ==
    /\ d_in = DatumHex(BinDatum)
    /\ is_some(d_out)
    /\ d_out.val.carrier = <<>>
    /\ d_out.val.tracking_number = TextBytes

(***************************************************************************)
(* Claims about the records of fetch_shipments                             *)
(***************************************************************************)
\* the place of a record's transaction in the address listing
ListedAt(record) ==
    CHOOSE k \in DOMAIN history : TxUniverse[history[k]].tx_hash = record.tx_hash

\* C19: each record fetch_shipments returns has the hash of the transaction
\* that was looked up and the output index of the very output whose inline
\* datum was decoded into the record's datum (looked at when fetch_shipments
\* has returned; the list does not change afterwards).
C19_RecordNamesItsOutput ==
    /\ \A k \in DOMAIN lookups :
          is_some(lookups[k].result) =>
             /\ lookups[k].result.val.tx_hash = lookups[k].tx_hash
             /\ lookups[k].tx_hash = TxUniverse[history[k]].tx_hash
    /\ (is_ok(fetched) /\ pc = "loop" /\ idx = 0) =>
          \A i \in DOMAIN fetched.val :
             \E k \in DOMAIN history :
                LET tx == TxUniverse[history[k]] IN
                /\ tx.tx_hash = fetched.val[i].tx_hash
                /\ \E j \in DOMAIN tx.outputs :
                      /\ tx.outputs[j].output_index = fetched.val[i].tx_index
                      /\ tx.outputs[j].address = config.oracle_address
                      /\ is_some(tx.outputs[j].inline_datum)
                      /\ from_cbor(tx.outputs[j].inline_datum.val)
                           = Some(fetched.val[i].datum)

\* the record of the transaction whose tracking output is output 1 has been
\* returned
C19_Witness ==
    /\ is_ok(fetched)
    /\ \E i \in DOMAIN fetched.val :
          /\ fetched.val[i].tx_hash = "8185f0c4"
          /\ fetched.val[i].tx_index = 1
          /\ fetched.val[i].datum.carrier = <<>>
          /\ fetched.val[i].datum.outbox_address = AddrBinBytes

\* C20: the lookups run concurrently and may complete in any order; the
\* records returned are in the order in which the address listing reported
\* their transactions.
C20_ListingOrderKept ==
    is_ok(fetched) =>
        \A i, j \in DOMAIN fetched.val :
            i < j => ListedAt(fetched.val[i]) < ListedAt(fetched.val[j])

\* two records have been returned in listing order although the lookup of
\* the second transaction completed first
C20_Witness ==
    /\ pc = "loop"
    /\ is_ok(fetched)
    /\ Len(fetched.val) = 2
    /\ Len(lookups) = 2
    /\ lookups[2].done_at < lookups[1].done_at
    /\ fetched.val[1].tx_hash = lookups[1].tx_hash
    /\ fetched.val[2].tx_hash = lookups[2].tx_hash

(***************************************************************************)
(* Claims about the scheduler (checked under SpecScheduler).               *)
(***************************************************************************)
RunsOf(origin) == {i \in DOMAIN runs : runs[i].origin = origin}

\* the main task is past line 23 only with its own poll cycle started
StartupCycleStarted ==
    main_pc \in {"startup_run", "sleeping", "crashed"} =>
        Cardinality(RunsOf("startup")) = 1

OneCyclePerTick == Cardinality(RunsOf("tick")) = ticks

\* the poll cycles that did not end well: run returned Err, or the signing
\* failed on its input, which in this code is a panic
FailedCycles == {i \in DOMAIN runs : runs[i].state \in {"error", "panicked"}}

ErrIsLogged ==
    \A i \in DOMAIN runs :
        runs[i].state = "error" <=>
            \E k \in DOMAIN log : log[k] = Line(i, "error")

\* C21: once the scheduler is started the main task runs one poll cycle of
\* its own, every cron tick starts one more, the Err of a poll cycle is
\* printed, and a poll cycle that failed leaves the scheduler running, so
\* that the later ticks still start their poll cycles.
C21_FailedCycleNeverStopsScheduler ==
    /\ StartupCycleStarted
    /\ OneCyclePerTick
    /\ ErrIsLogged
    /\ FailedCycles # {} => SchedulerStarted

====
